---- MODULE Spec2Model ----
(***************************************************************************)
(* Order service (src/order/app.py): order records in Redis, mutated by   *)
(* WATCH / MULTI / EXEC pipelines, and the checkout saga that publishes    *)
(* two intents to Kafka and waits for a reply on one partition of the      *)
(* results topic.                                                          *)
(*                                                                         *)
(* Redis contract used: WATCH marks the connection dirty when a watched    *)
(* key is modified; EXEC aborts (WatchError) when the connection is dirty  *)
(* and in every case forgets all watches; the commands between MULTI and   *)
(* EXEC are applied as one atomic step.                                    *)
(***************************************************************************)
EXTENDS Integers, Sequences, FiniteSets, TLC

VARIABLES
    store,      \* order key -> Redis hash (field -> value); empty = no key
    price,      \* stock service: item -> <<unit price>>, or <<>> if no such item
    usedIds,    \* uuid4 values already handed out as order ids
    req,        \* request slot -> the handler's local state
    ins,        \* history: order -> price paid at insertion, per items entry
    pairs,      \* history: <<order, items, total_cost>> written in one EXEC
    now,        \* wall clock, seconds
    usedTxn,    \* uuid4 values already handed out as transaction ids
    chk,        \* request slot -> checkout's locals (transaction id, consumer)
    outbox,     \* messages sent by the producer, in order
    results,    \* order_result_topic: partition -> log of messages
    committed,  \* order-result-group: partition -> committed offset
    sel         \* one partition selection: key bytes, partition count, index

storeVars == <<store, price, usedIds, ins, pairs>>
sagaVars == <<now, usedTxn, chk, outbox, results, committed, sel>>
vars == <<store, price, usedIds, req, ins, pairs,
          now, usedTxn, chk, outbox, results, committed, sel>>

-----------------------------------------------------------------------------
(* Bounds *)

NReq == 4
NOrderIds == 1

NChk == 2
NumPartitions == 2
MaxLog == 2
TickSecs == 6
MaxTime == 12
MaxPairs == 5
MaxKeyLen == 3
MaxPartitions == 3

\* program constants
TimeoutSecs == 10
ConsumerTimeoutSecs == 10
AutoCommitSecs == 5

Req == 1..NReq
SagaReq == 1..NChk
Partitions == 0..(NumPartitions - 1)
\* uuid4 strings, as their bytes: "0a1b", "2c3d"
TxnIds == {<<48, 97, 49, 98>>, <<50, 99, 51, 100>>}
\* the transaction id of a checkout of another instance: "f6"
ForeignTxn == <<102, 54>>
OrderIds == 1..NOrderIds
UserIds == {"U1"}
ItemIds == {"I1", "I9"}
\* I9 is an id the stock service has never listed
Listed == {"I1"}
PriceVals == {3, 5}
None == <<>>

-----------------------------------------------------------------------------
(* Redis hashes and the encodings the handlers store in them *)

NoHash == [x \in {} |-> 0]

HSet(h, f, v) == [x \in DOMAIN h \cup {f} |-> IF x = f THEN v ELSE h[x]]

\* json.dumps of a list of ids: the stored value is text, not a list
JsonDumps(list) == [json |-> list]
JsonLoads(text) == text.json

\* redis-py renders an int field as its decimal text; int() parses it back
IntToBytes(n) == [dec |-> n]
BytesToInt(b) == b.dec

RECURSIVE SumSeq(_)
SumSeq(s) == IF s = <<>> THEN 0 ELSE Head(s) + SumSeq(Tail(s))

Contains(list, x) == \E k \in 1..Len(list) : list[k] = x

FirstIndex(list, x) == CHOOSE k \in 1..Len(list) :
    list[k] = x /\ \A j \in 1..(k - 1) : list[j] # x

DropAt(list, k) == SubSeq(list, 1, k - 1) \o SubSeq(list, k + 1, Len(list))

\* list.remove(x): deletes the first occurrence
\* a remove that takes out the last occurrence
ListRemoveLast(list, x) ==
    DropAt(list, CHOOSE k \in 1..Len(list) :
        list[k] = x /\ \A j \in (k + 1)..Len(list) : list[j] # x)

\* list.remove(x): the first occurrence goes, the rest keep their order
ListRemove(list, x) == DropAt(list, FirstIndex(list, x))

-----------------------------------------------------------------------------
(* Request slots *)

IdleReq == [op |-> "none", pc |-> "idle", order_id |-> 0, item_id |-> "",
            watching |-> FALSE, dirty |-> FALSE,
            order_data |-> NoHash, oracle |-> 0, item_price |-> 0,
            code |-> 0, body |-> "", order |-> NoHash,
            wrote |-> FALSE, stale |-> FALSE, ins |-> <<>>]

\* slots are taken in order (they are interchangeable)
Free(r) == req[r].op = "none" /\ (IF r = 1 THEN TRUE ELSE req[r - 1].op # "none")

\* pipe.watch(order_key): sent at once, the connection now watches the key
Begin(r, op, o, i) == [req EXCEPT ![r] =
    [@ EXCEPT !.op = op, !.pc = "read", !.order_id = o, !.item_id = i,
              !.watching = TRUE]]

\* the handler returns; finally: pipe.unwatch() / pipe.reset()
Return(rq, r, code, body) == [rq EXCEPT ![r] =
    [@ EXCEPT !.pc = "done", !.code = code, !.body = body,
              !.watching = FALSE, !.dirty = FALSE]]

\* EXEC forgets the connection's watches, whether it ran or aborted
Unwatch(rq, r) == [rq EXCEPT ![r] = [@ EXCEPT !.watching = FALSE, !.dirty = FALSE]]

\* a write to key o: every connection watching o becomes dirty; a request
\* that has read o and not yet committed now holds a stale snapshot
Touch(rq, o, by, mutation) == [x \in Req |->
    [rq[x] EXCEPT
        !.dirty = @ \/ (rq[x].watching /\ rq[x].order_id = o),
        !.stale = @ \/ (/\ mutation
                        /\ x # by
                        /\ rq[x].op \in {"add_item", "remove_item"}
                        /\ rq[x].pc \in {"price", "commit"}
                        /\ rq[x].order_id = o)]]

TypeOK ==
    /\ DOMAIN store = OrderIds
    /\ usedIds \subseteq OrderIds
    /\ DOMAIN price = ItemIds
    /\ DOMAIN req = Req

-----------------------------------------------------------------------------
(* Order store handlers *)

\* create_order: MULTI, five HSETs under a fresh uuid4 key, EXEC
create_order(r, user_id) ==
    /\ Free(r)
    /\ \E order_id \in OrderIds \ usedIds :
        /\ usedIds' = usedIds \cup {order_id}
        /\ store' = [store EXCEPT ![order_id] =
                [order_id |-> order_id, paid |-> "False",
                 items |-> JsonDumps(<<>>), user_id |-> user_id,
                 total_cost |-> IntToBytes(0)]]
        /\ ins' = [ins EXCEPT ![order_id] = <<>>]
        /\ pairs' = pairs \cup {<<order_id, <<>>, 0>>}
        /\ req' = Return(Touch([req EXCEPT ![r] =
                        [@ EXCEPT !.op = "create_order", !.order_id = order_id]],
                        order_id, r, FALSE),
                        r, 200, "order_id")
    /\ UNCHANGED <<price, sagaVars>>

\* remove_order: MULTI, DEL, EXEC; DEL answers the number of keys removed
remove_order(r, order_id) ==
    /\ Free(r)
    /\ LET rq == [req EXCEPT ![r] =
                    [@ EXCEPT !.op = "remove_order", !.order_id = order_id]]
       IN IF store[order_id] = NoHash
          THEN /\ req' = Return(rq, r, 400, "Order not found")
               /\ UNCHANGED <<store, ins>>
          ELSE /\ store' = [store EXCEPT ![order_id] = NoHash]
               /\ ins' = [ins EXCEPT ![order_id] = <<>>]
               /\ req' = Return(Touch(rq, order_id, r, FALSE), r, 200, "success")
    /\ UNCHANGED <<price, usedIds, pairs, sagaVars>>

\* add_item, line 132: pipe.watch(order_key)
add_item_watch(r, order_id, item_id) ==
    /\ Free(r)
    /\ req' = Begin(r, "add_item", order_id, item_id)
    /\ UNCHANGED <<storeVars, sagaVars>>

\* add_item, lines 133-143: MULTI, EXISTS, HGETALL, EXEC
add_item_read(r) ==
    /\ req[r].op = "add_item" /\ req[r].pc = "read"
    /\ req' = IF req[r].dirty
              THEN Return(req, r, 500, "Watched variable changed.")
              ELSE IF store[req[r].order_id] = NoHash
              THEN Return(req, r, 400, "The order_key does not exist")
              ELSE Unwatch([req EXCEPT ![r] =
                        [@ EXCEPT !.pc = "price",
                                  !.order_data = store[req[r].order_id],
                                  !.ins = ins[req[r].order_id]]], r)
    /\ UNCHANGED <<storeVars, sagaVars>>

\* GET /stock/find/<item_id>: 200 with the price, 404 for an item the stock
\* service does not know; status 0 stands for requests.get raising
StockFind(item_id) ==
    { IF price[item_id] = None
      THEN [status |-> 404, price |-> 0]
      ELSE [status |-> 200, price |-> price[item_id][1]],
      [status |-> 0, price |-> 0] }

\* a lookup that takes the price of any answer, 404 included
get_item_price_any_status(response) == <<response.price>>

\* get_item_price: the price of a 200 answer, None for any other status
get_item_price(response) ==
    IF response.status = 200 THEN <<response.price>> ELSE None

\* add_item, lines 144-146
add_item_price(r) ==
    /\ req[r].op = "add_item" /\ req[r].pc = "price"
    /\ \E response \in StockFind(req[r].item_id) :
        LET item_price == get_item_price(response)
            rq == [req EXCEPT ![r] = [@ EXCEPT !.oracle = response.status]]
        IN req' = IF response.status = 0
                  THEN Return(rq, r, 500, "ConnectionError")
                  ELSE IF item_price = None
                  THEN Return(rq, r, 400, "Item not found")
                  ELSE [rq EXCEPT ![r] =
                           [@ EXCEPT !.pc = "commit", !.item_price = item_price[1]]]
    /\ UNCHANGED <<storeVars, sagaVars>>

\* a commit that loses the total_cost HSET
CommitItemsOnly(h, items, total_cost) == HSet(h, "items", JsonDumps(items))

\* the second MULTI ... EXEC of add_item / remove_item: both HSETs are
\* applied together
CommitItems(h, items, total_cost) ==
    HSet(HSet(h, "items", JsonDumps(items)), "total_cost", IntToBytes(total_cost))

\* EXEC: aborts only when the connection is watching a key that changed
ExecAborts(rq, r) == rq[r].watching /\ rq[r].dirty

\* add_item, lines 147-154
add_item_commit(r) ==
    /\ req[r].op = "add_item" /\ req[r].pc = "commit"
    /\ LET o == req[r].order_id
           items == Append(JsonLoads(req[r].order_data["items"]), req[r].item_id)
           total_cost == BytesToInt(req[r].order_data["total_cost"]) + req[r].item_price
       IN IF ExecAborts(req, r)
          THEN /\ req' = Return(req, r, 500, "Watched variable changed.")
               /\ UNCHANGED <<store, ins, pairs>>
          ELSE /\ store' = [store EXCEPT ![o] = CommitItems(@, items, total_cost)]
               /\ ins' = [ins EXCEPT ![o] = Append(req[r].ins, req[r].item_price)]
               /\ pairs' = pairs \cup {<<o, items, total_cost>>}
               /\ req' = Return(Touch([req EXCEPT ![r] = [@ EXCEPT !.wrote = TRUE]],
                                      o, r, TRUE), r, 200, "success")
    /\ UNCHANGED <<price, usedIds, sagaVars>>

\* remove_item, line 167: pipe.watch(order_key)
remove_item_watch(r, order_id, item_id) ==
    /\ Free(r)
    /\ req' = Begin(r, "remove_item", order_id, item_id)
    /\ UNCHANGED <<storeVars, sagaVars>>

\* remove_item, lines 168-175: MULTI, HGETALL, EXEC
remove_item_read(r) ==
    /\ req[r].op = "remove_item" /\ req[r].pc = "read"
    /\ req' = IF req[r].dirty
              THEN Return(req, r, 500, "Watched variable changed.")
              ELSE IF store[req[r].order_id] = NoHash
              THEN Return(req, r, 400, "Order not found")
              ELSE Unwatch([req EXCEPT ![r] =
                        [@ EXCEPT !.pc = "price",
                                  !.order_data = store[req[r].order_id],
                                  !.ins = ins[req[r].order_id]]], r)
    /\ UNCHANGED <<storeVars, sagaVars>>

\* remove_item with the item looked up in the order before its price
remove_item_price_items_first(r) ==
    /\ req[r].op = "remove_item" /\ req[r].pc = "price"
    /\ \E response \in StockFind(req[r].item_id) :
        LET item_price == get_item_price(response)
            items == JsonLoads(req[r].order_data["items"])
            rq == [req EXCEPT ![r] = [@ EXCEPT !.oracle = response.status]]
        IN req' = IF ~Contains(items, req[r].item_id)
                  THEN Return(rq, r, 400, "Item not in order")
                  ELSE IF response.status = 0
                  THEN Return(rq, r, 500, "ConnectionError")
                  ELSE IF item_price = None
                  THEN Return(rq, r, 400, "Item not found")
                  ELSE [rq EXCEPT ![r] =
                           [@ EXCEPT !.pc = "commit", !.item_price = item_price[1]]]
    /\ UNCHANGED <<storeVars, sagaVars>>

\* remove_item, lines 176-181: the price is asked for before the item is
\* looked up in the order
remove_item_price(r) ==
    /\ req[r].op = "remove_item" /\ req[r].pc = "price"
    /\ \E response \in StockFind(req[r].item_id) :
        LET item_price == get_item_price(response)
            items == JsonLoads(req[r].order_data["items"])
            rq == [req EXCEPT ![r] = [@ EXCEPT !.oracle = response.status]]
        IN req' = IF response.status = 0
                  THEN Return(rq, r, 500, "ConnectionError")
                  ELSE IF item_price = None
                  THEN Return(rq, r, 400, "Item not found")
                  ELSE IF ~Contains(items, req[r].item_id)
                  THEN Return(rq, r, 400, "Item not in order")
                  ELSE [rq EXCEPT ![r] =
                           [@ EXCEPT !.pc = "commit", !.item_price = item_price[1]]]
    /\ UNCHANGED <<storeVars, sagaVars>>

\* remove_item, lines 182-188
remove_item_commit(r) ==
    /\ req[r].op = "remove_item" /\ req[r].pc = "commit"
    /\ LET o == req[r].order_id
           old == JsonLoads(req[r].order_data["items"])
           items == ListRemove(old, req[r].item_id)
           total_cost == BytesToInt(req[r].order_data["total_cost"]) - req[r].item_price
       IN IF ExecAborts(req, r)
          THEN /\ req' = Return(req, r, 500, "Watched variable changed.")
               /\ UNCHANGED <<store, ins, pairs>>
          ELSE /\ store' = [store EXCEPT ![o] = CommitItems(@, items, total_cost)]
               /\ ins' = [ins EXCEPT ![o] =
                            DropAt(req[r].ins, FirstIndex(old, req[r].item_id))]
               /\ pairs' = pairs \cup {<<o, items, total_cost>>}
               /\ req' = Return(Touch([req EXCEPT ![r] = [@ EXCEPT !.wrote = TRUE]],
                                      o, r, TRUE), r, 200, "success")
    /\ UNCHANGED <<price, usedIds, sagaVars>>

\* find_order, line 200: pipe.watch(order_key)
find_order_watch(r, order_id) ==
    /\ Free(r)
    /\ req' = Begin(r, "find_order", order_id, "")
    /\ UNCHANGED <<storeVars, sagaVars>>

\* find_order, lines 207-212: every field as text, items decoded to a list
DecodeOrder(order_data) == [f \in DOMAIN order_data |->
    IF f = "items" THEN JsonLoads(order_data[f]) ELSE order_data[f]]

\* find_order, lines 201-213: MULTI, HGETALL, EXEC
find_order_read(r) ==
    /\ req[r].op = "find_order" /\ req[r].pc = "read"
    /\ req' = IF req[r].dirty
              THEN Return(req, r, 500, "Watched variable changed.")
              ELSE IF store[req[r].order_id] = NoHash
              THEN Return(req, r, 400, "Order not found")
              ELSE Return([req EXCEPT ![r] =
                        [@ EXCEPT !.order = DecodeOrder(store[req[r].order_id])]],
                        r, 200, "order")
    /\ UNCHANGED <<storeVars, sagaVars>>

\* the stock service changes an item's price, lists it or drops it
change_price(item_id, p) ==
    /\ price[item_id] # p
    /\ price' = [price EXCEPT ![item_id] = p]
    /\ UNCHANGED <<store, usedIds, req, ins, pairs, sagaVars>>

-----------------------------------------------------------------------------
(* Specification of the order store: every handler but checkout *)

Prices == {<<p>> : p \in PriceVals} \cup {None}

InitStore ==
    /\ store = [o \in OrderIds |-> NoHash]
    /\ price = [i \in ItemIds |-> IF i = "I1" THEN <<5>> ELSE None]
    /\ usedIds = {}
    /\ req = [r \in Req |-> IdleReq]
    /\ ins = [o \in OrderIds |-> <<>>]
    /\ pairs = {}

\* no partition selection under way
IdleSel == [key |-> <<>>, n |-> 0, index |-> -1, again |-> -1]

IdleChk == [txn |-> <<>>, consumer |-> "none", partition |-> -1, position |-> -1,
            deadline |-> 0, ctimeout |-> 0, nextCommit |-> 0, got |-> -1]

InitSaga ==
    /\ now = 0
    /\ usedTxn = {}
    /\ chk = [r \in Req |-> IdleChk]
    /\ outbox = <<>>
    /\ results = [p \in Partitions |-> <<>>]
    /\ committed = [p \in Partitions |-> -1]
    /\ sel = IdleSel

Init == InitStore /\ InitSaga

Next ==
    \/ \E r \in Req, u \in UserIds : create_order(r, u)
    \/ \E r \in Req, o \in OrderIds : remove_order(r, o)
    \/ \E r \in Req, o \in OrderIds, i \in ItemIds : add_item_watch(r, o, i)
    \/ \E r \in Req : add_item_read(r)
    \/ \E r \in Req : add_item_price(r)
    \/ \E r \in Req : add_item_commit(r)
    \/ \E r \in Req, o \in OrderIds, i \in ItemIds : remove_item_watch(r, o, i)
    \/ \E r \in Req : remove_item_read(r)
    \/ \E r \in Req : remove_item_price(r)
    \/ \E r \in Req : remove_item_commit(r)
    \/ \E r \in Req, o \in OrderIds : find_order_watch(r, o)
    \/ \E r \in Req : find_order_read(r)
    \/ \E i \in Listed, p \in Prices : change_price(i, p)

Spec == Init /\ [][Next]_vars

-----------------------------------------------------------------------------
(* Specification of the order store serving one request at a time *)

\* no request is being served
Quiet == \A r \in Req : req[r].op = "none"

\* the request has been answered and its locals are gone: the worker is
\* free for the next request
release(r) ==
    /\ req[r].pc = "done"
    /\ req' = [req EXCEPT ![r] = IdleReq]
    /\ UNCHANGED <<storeVars, sagaVars>>

\* calls arrive one after the other, each served to its end before the next
SeqNext ==
    \/ \E u \in UserIds : Quiet /\ create_order(1, u)
    \/ \E o \in OrderIds, i \in ItemIds :
          Quiet /\ Cardinality(pairs) < MaxPairs /\ add_item_watch(1, o, i)
    \/ add_item_read(1)
    \/ add_item_price(1)
    \/ add_item_commit(1)
    \/ \E o \in OrderIds, i \in ItemIds :
          Quiet /\ Cardinality(pairs) < MaxPairs /\ remove_item_watch(1, o, i)
    \/ remove_item_read(1)
    \/ remove_item_price(1)
    \/ remove_item_commit(1)
    \/ \E i \in ItemIds, p \in Prices : Quiet /\ change_price(i, p)
    \/ release(1)

SeqSpec == Init /\ [][SeqNext]_vars

-----------------------------------------------------------------------------
(* 32-bit words as <<high 16 bits, low 16 bits>>, and murmur2 over them *)

Pow2(n) == 2 ^ n
Half == Pow2(16)

RECURSIVE XorBits(_, _, _)
XorBits(x, y, n) ==
    IF n = 0 THEN 0
    ELSE ((x + y) % 2) + 2 * XorBits(x \div 2, y \div 2, n - 1)

Xor32(a, b) == <<XorBits(a[1], b[1], 16), XorBits(a[2], b[2], 16)>>

\* x * y for 16-bit x and y, as a 32-bit word
Mul16(x, y) ==
    LET p0 == (x % 256) * y
        p1 == (x \div 256) * y
        lo == (p0 % Half) + (p1 % 256) * 256
    IN <<((p0 \div Half) + (p1 \div 256) + (lo \div Half)) % Half, lo % Half>>

\* a * b, & 0xffffffff
Mul32(a, b) ==
    LET ll == Mul16(a[2], b[2])
    IN <<(ll[1] + Mul16(a[1], b[2])[2] + Mul16(a[2], b[1])[2]) % Half, ll[2]>>

\* a >>> r, for 0 < r < 32
Shr32(a, r) ==
    IF r >= 16 THEN <<0, a[1] \div Pow2(r - 16)>>
    ELSE <<a[1] \div Pow2(r), (a[1] % Pow2(r)) * Pow2(16 - r) + (a[2] \div Pow2(r))>>

\* kafka.partitioner.default.murmur2: seed 0x9747b28c, m 0x5bd1e995, r 24
MurmurSeed == <<38727, 45708>>
MurmurM == <<23505, 59797>>

MurmurMix(h, k) ==
    LET k1 == Mul32(k, MurmurM)
        k2 == Xor32(k1, Shr32(k1, 24))
        k3 == Mul32(k2, MurmurM)
    IN Xor32(Mul32(h, MurmurM), k3)

RECURSIVE MurmurBlocks(_, _, _)
MurmurBlocks(data, i, h) ==
    IF i + 3 > Len(data) THEN h
    ELSE MurmurBlocks(data, i + 4,
            MurmurMix(h, <<data[i + 2] + 256 * data[i + 3], data[i] + 256 * data[i + 1]>>))

MurmurTail(data, h) ==
    LET extra == Len(data) % 4
        base == Len(data) - extra
        h3 == IF extra >= 3 THEN Xor32(h, <<data[base + 3], 0>>) ELSE h
        h2 == IF extra >= 2 THEN Xor32(h3, <<0, 256 * data[base + 2]>>) ELSE h3
    IN IF extra >= 1 THEN Mul32(Xor32(h2, <<0, data[base + 1]>>), MurmurM) ELSE h2

murmur2(data) ==
    LET h0 == MurmurTail(data, MurmurBlocks(data, 1, Xor32(MurmurSeed, <<0, Len(data)>>)))
        h1 == Mul32(Xor32(h0, Shr32(h0, 13)), MurmurM)
    IN Xor32(h1, Shr32(h1, 15))

\* hash & 0x7fffffff, as an integer
ClearSign(h) == (h[1] % Pow2(15)) * Half + h[2]

\* str.encode('utf-8') of an ASCII id: its bytes
Utf8Encode(text) == text

\* producer, line 223: key_serializer = json.dumps(v).encode("utf-8"),
\* the id between double quotes
KeySerializer(text) == <<34>> \o Utf8Encode(text) \o <<34>>

\* checkout, line 259: key_deserializer = json.loads(x.decode("utf-8"))
KeyDeserializer(bytes) == SubSeq(bytes, 2, Len(bytes) - 1)

\* DefaultPartitioner of the producer: murmur2 of the serialized key,
\* sign bit cleared, modulo the partition count
DefaultPartitioner(serialized_key, n) == ClearSign(murmur2(serialized_key)) % n

\* a selection that leaves the sign bit in: the 32-bit hash modulo n
PartitionIndexUnmasked(key_bytes, n) ==
    LET h == murmur2(key_bytes)
    IN ((h[1] % n) * (Half % n) + (h[2] % n)) % n

\* checkout, lines 266-269: the partition the checkout listens on
PartitionIndex(key_bytes, n) == ClearSign(murmur2(key_bytes)) % n

-----------------------------------------------------------------------------
(* Specification of the partition selection alone *)

\* bytes of a uuid4 text: hex digits and the hyphen
KeyBytes == {45, 48, 102}

RECURSIVE SeqsUpTo(_, _)
SeqsUpTo(S, len) ==
    IF len = 0 THEN {<<>>}
    ELSE LET shorter == SeqsUpTo(S, len - 1)
         IN shorter \cup {Append(q, x) : q \in shorter, x \in S}

\* keys with a known murmur2 value: "21", "abc", "foobar"
ReferenceKeys == {<<50, 49>>, <<97, 98, 99>>, <<102, 111, 111, 98, 97, 114>>}

Keys == SeqsUpTo(KeyBytes, MaxKeyLen) \cup ReferenceKeys

InitSelect ==
    /\ InitStore
    /\ now = 0 /\ usedTxn = {} /\ chk = [r \in Req |-> IdleChk]
    /\ outbox = <<>>
    /\ results = [p \in Partitions |-> <<>>]
    /\ committed = [p \in Partitions |-> -1]
    /\ \E key \in Keys, n \in 1..MaxPartitions :
          sel = [IdleSel EXCEPT !.key = key, !.n = n]

\* checkout, lines 266-269, for the key and the partition count at hand
select ==
    /\ sel.index = -1
    /\ sel' = [sel EXCEPT !.index = PartitionIndex(sel.key, sel.n)]
    /\ UNCHANGED <<storeVars, req, now, usedTxn, chk, outbox, results, committed>>

\* the same computation once more
select_again ==
    /\ sel.index # -1 /\ sel.again = -1
    /\ sel' = [sel EXCEPT !.again = PartitionIndex(sel.key, sel.n)]
    /\ UNCHANGED <<storeVars, req, now, usedTxn, chk, outbox, results, committed>>

SelectNext == select \/ select_again

SelectSpec == InitSelect /\ [][SelectNext]_vars

-----------------------------------------------------------------------------
(* checkout *)

\* checkout, lines 229-242: a fresh uuid4 as transaction id, pipe.watch
checkout_watch(r, order_id) ==
    /\ Free(r)
    /\ \E global_transaction_id \in TxnIds \ usedTxn :
        /\ usedTxn' = usedTxn \cup {global_transaction_id}
        /\ chk' = [chk EXCEPT ![r] = [@ EXCEPT !.txn = global_transaction_id]]
    /\ req' = Begin(r, "checkout", order_id, "")
    /\ UNCHANGED <<storeVars, now, outbox, results, committed, sel>>

\* a checkout without the test for an empty record: order_data["items"]
\* raises KeyError
checkout_read_unchecked(r) ==
    /\ req[r].op = "checkout" /\ req[r].pc = "read"
    /\ req' = IF req[r].dirty
              THEN Return(req, r, 500, "Watched variable changed.")
              ELSE IF store[req[r].order_id] = NoHash
              THEN Return(req, r, 500, "KeyError")
              ELSE Unwatch([req EXCEPT ![r] =
                        [@ EXCEPT !.pc = "consumer",
                                  !.order_data = store[req[r].order_id]]], r)
    /\ UNCHANGED <<storeVars, sagaVars>>

\* checkout, lines 243-252: MULTI, HGETALL, EXEC; items decoded to a list
checkout_read(r) ==
    /\ req[r].op = "checkout" /\ req[r].pc = "read"
    /\ req' = IF req[r].dirty
              THEN Return(req, r, 500, "Watched variable changed.")
              ELSE IF store[req[r].order_id] = NoHash
              THEN Return(req, r, 400, "Order not found")
              ELSE Unwatch([req EXCEPT ![r] =
                        [@ EXCEPT !.pc = "consumer",
                                  !.order_data = store[req[r].order_id]]], r)
    /\ UNCHANGED <<storeVars, sagaVars>>

\* the checkout returns: its timers are gone, its consumer object stays as
\* it is (nothing closes it)
Finish(c) == [c EXCEPT !.ctimeout = 0, !.nextCommit = 0, !.position = -1]

\* consumer.partitions_for_topic: the partitions, or None (0 here) while the
\* topic's metadata is not known
partitions_for_topic == {0, NumPartitions}

\* checkout, lines 254-270: a new KafkaConsumer, then the partition of the
\* transaction id's bytes, then consumer.assign; len(None) raises
checkout_consumer(r) ==
    /\ req[r].op = "checkout" /\ req[r].pc = "consumer"
    /\ \E n \in partitions_for_topic :
        LET opened == [chk[r] EXCEPT !.consumer = "open",
                                     !.nextCommit = now + AutoCommitSecs]
        IN IF n = 0
           THEN /\ chk' = [chk EXCEPT ![r] = Finish(opened)]
                /\ req' = Return(req, r, 500, "TypeError")
           ELSE /\ chk' = [chk EXCEPT ![r] = [opened EXCEPT
                            !.partition = PartitionIndex(Utf8Encode(chk[r].txn), n)]]
                /\ req' = [req EXCEPT ![r] = [@ EXCEPT !.pc = "send_stock"]]
    /\ UNCHANGED <<storeVars, now, usedTxn, outbox, results, committed, sel>>

\* a send that publishes the message twice
SendTwice(topic, value, key) ==
    outbox \o <<[topic |-> topic, value |-> value, key |-> KeySerializer(key)],
                [topic |-> topic, value |-> value, key |-> KeySerializer(key)]>>

\* producer.send: the key goes through key_serializer
Send(topic, value, key) ==
    Append(outbox, [topic |-> topic, value |-> value, key |-> KeySerializer(key)])

\* the stock intent published before the consumer exists
checkout_send_stock_before_consumer(r) ==
    /\ req[r].op = "checkout" /\ req[r].pc = "consumer"
    /\ \A k \in 1..Len(outbox) : outbox[k].key # KeySerializer(chk[r].txn)
    /\ outbox' = Send("stock_check_topic",
                       [affected_items |-> JsonLoads(req[r].order_data["items"]),
                        action |-> "remove", is_roll_back |-> "false"],
                       chk[r].txn)
    /\ UNCHANGED <<storeVars, req, now, usedTxn, chk, results, committed, sel>>

\* checkout, lines 273-281
checkout_send_stock(r) ==
    /\ req[r].op = "checkout" /\ req[r].pc = "send_stock"
    /\ outbox' = Send("stock_check_topic",
                       [affected_items |-> JsonLoads(req[r].order_data["items"]),
                        action |-> "remove", is_roll_back |-> "false"],
                       chk[r].txn)
    /\ req' = [req EXCEPT ![r] = [@ EXCEPT !.pc = "send_payment"]]
    /\ UNCHANGED <<storeVars, now, usedTxn, chk, results, committed, sel>>

\* checkout, lines 282-288: the second send, then the deadline
checkout_send_payment(r) ==
    /\ req[r].op = "checkout" /\ req[r].pc = "send_payment"
    /\ outbox' = Send("payment_processing_topic",
                       [order_data |-> DecodeOrder(req[r].order_data),
                        action |-> "pay", is_roll_back |-> "false"],
                       chk[r].txn)
    /\ chk' = [chk EXCEPT ![r] = [@ EXCEPT !.deadline = now + TimeoutSecs]]
    /\ req' = [req EXCEPT ![r] = [@ EXCEPT !.pc = "iterate"]]
    /\ UNCHANGED <<storeVars, now, usedTxn, results, committed, sel>>

\* the position a consumer of the group starts from: the group's committed
\* offset for the partition, else the earliest offset (auto_offset_reset)
StartPosition(p) == IF committed[p] >= 0 THEN committed[p] ELSE 0

\* checkout, line 289: next(consumer); each call restarts the idle timeout
\* consumer_timeout_ms, the first one also fetches the start position
checkout_next(r) ==
    /\ req[r].op = "checkout" /\ req[r].pc = "iterate"
    /\ chk' = [chk EXCEPT ![r] = [@ EXCEPT
                !.position = IF @ < 0 THEN StartPosition(chk[r].partition) ELSE @,
                !.ctimeout = now + ConsumerTimeoutSecs]]
    /\ req' = [req EXCEPT ![r] = [@ EXCEPT !.pc = "poll"]]
    /\ UNCHANGED <<storeVars, now, usedTxn, outbox, results, committed, sel>>

Polling(r) == req[r].op = "checkout" /\ req[r].pc = "poll"
Available(r) == chk[r].position < Len(results[chk[r].partition])

\* a consumer without consumer_timeout_ms: iteration never stops by itself
ExpiredNever(r) == FALSE

\* consumer_timeout_ms since the last next(consumer) have passed
Expired(r) == now >= chk[r].ctimeout

\* a checkout that answers from the next message whatever its key
checkout_message_any_key(r) ==
    /\ Polling(r) /\ Available(r) /\ ~Expired(r)
    /\ LET offset == chk[r].position
           message == results[chk[r].partition][offset + 1]
       IN /\ chk' = [chk EXCEPT ![r] = Finish([@ EXCEPT !.got = offset])]
          /\ req' = IF message.value.status = "success"
                    THEN Return(req, r, 200, "success")
                    ELSE Return(req, r, 400, "Payment failed")
    /\ UNCHANGED <<storeVars, now, usedTxn, outbox, results, committed, sel>>

\* a checkout that marks the order paid when the reply says success
checkout_message_marks_paid(r) ==
    /\ Polling(r) /\ Available(r) /\ ~Expired(r)
    /\ LET offset == chk[r].position
           message == results[chk[r].partition][offset + 1]
           o == req[r].order_id
       IN /\ KeyDeserializer(message.key) = chk[r].txn
          /\ message.value.status = "success"
          /\ store[o] # NoHash
          /\ store' = [store EXCEPT ![o] = HSet(@, "paid", "True")]
          /\ chk' = [chk EXCEPT ![r] = Finish([@ EXCEPT !.got = offset])]
          /\ req' = Return(req, r, 200, "success")
    /\ UNCHANGED <<price, usedIds, ins, pairs, now, usedTxn, outbox, results, committed, sel>>

\* checkout, lines 289-298: the consumer hands over the next message of the
\* partition; a matching key answers, any other message only tests the clock
checkout_message(r) ==
    /\ Polling(r) /\ Available(r) /\ ~Expired(r)
    /\ LET offset == chk[r].position
           message == results[chk[r].partition][offset + 1]
       IN IF KeyDeserializer(message.key) = chk[r].txn
          THEN /\ chk' = [chk EXCEPT ![r] = Finish([@ EXCEPT !.got = offset])]
               /\ req' = IF message.value.status = "success"
                         THEN Return(req, r, 200, "success")
                         ELSE Return(req, r, 400, "Payment failed")
          ELSE /\ chk' = [chk EXCEPT ![r] =
                            IF now > chk[r].deadline THEN Finish(@)
                            ELSE [@ EXCEPT !.position = offset + 1]]
               /\ req' = IF now > chk[r].deadline
                         THEN Return(req, r, 400, "Wait too long, quit")
                         ELSE [req EXCEPT ![r] = [@ EXCEPT !.pc = "iterate"]]
    /\ UNCHANGED <<storeVars, now, usedTxn, outbox, results, committed, sel>>

\* checkout, lines 289, 300: no message for consumer_timeout_ms ends the loop
checkout_idle(r) ==
    /\ Polling(r) /\ Expired(r)
    /\ req' = Return(req, r, 400, "Wait too long, quit")
    /\ chk' = [chk EXCEPT ![r] = Finish(@)]
    /\ UNCHANGED <<storeVars, now, usedTxn, outbox, results, committed, sel>>

\* enable_auto_commit (default): while it polls, a consumer commits its
\* position for the group, the first time auto_commit_interval_ms after it
\* was created
auto_commit(r) ==
    /\ Polling(r) /\ chk[r].consumer = "open"
    /\ now >= chk[r].nextCommit
    /\ committed[chk[r].partition] # chk[r].position
    /\ committed' = [committed EXCEPT ![chk[r].partition] = chk[r].position]
    /\ UNCHANGED <<storeVars, req, now, usedTxn, chk, outbox, results, sel>>

Running(r) == req[r].op = "checkout" /\ req[r].pc # "done"

LogSize == SumSeq([p \in 1..NumPartitions |-> Len(results[p - 1])])

\* where a result keyed with a transaction id lands: the services that
\* answer use the default partitioner too, over the key bytes their producer
\* sends, which are the id as it is or the id through this key_serializer
ResultPartitions(key) ==
    {PartitionIndex(Utf8Encode(key), NumPartitions),
     DefaultPartitioner(KeySerializer(key), NumPartitions)}

\* the same, worked out once per id
ResultTable == {<<k, ResultPartitions(k)>> : k \in TxnIds \cup {ForeignTxn}}
LandsOn(key, p) == \E e \in ResultTable : e[1] = key /\ p \in e[2]

\* the checkout waiting for transaction id key has passed its deadline
PastDeadline(key) == \E r \in Req :
    /\ Running(r) /\ chk[r].txn = key
    /\ req[r].pc \in {"iterate", "poll"} /\ now > chk[r].deadline

\* the stock or payment service answers a transaction whose intent it has
\* received and whose checkout is still waiting; late records that the
\* answer is published after that checkout's deadline
reply(key, status, p) ==
    /\ LogSize < MaxLog
    /\ LandsOn(key, p)
    /\ \E r \in Req : Running(r) /\ chk[r].txn = key
    /\ \E k \in 1..Len(outbox) : outbox[k].key = KeySerializer(key)
    /\ results' = [results EXCEPT ![p] = Append(@,
            [key |-> KeySerializer(key), value |-> [status |-> status],
             late |-> PastDeadline(key)])]
    /\ UNCHANGED <<storeVars, req, now, usedTxn, chk, outbox, committed, sel>>

\* a result for a checkout of another instance of the service lands on the
\* topic while a checkout of this instance is running
foreign_reply(p) ==
    /\ LogSize < MaxLog
    /\ LandsOn(ForeignTxn, p)
    /\ \E r \in Req : Running(r)
    /\ results' = [results EXCEPT ![p] = Append(@,
            [key |-> KeySerializer(ForeignTxn), value |-> [status |-> "success"],
             late |-> FALSE])]
    /\ UNCHANGED <<storeVars, req, now, usedTxn, chk, outbox, committed, sel>>

\* time passes, but not past a poll that has a message or has run out
tick ==
    /\ now < MaxTime
    /\ \E r \in Req : Running(r)
    /\ \A r \in Req : Polling(r) => ~Available(r) /\ ~Expired(r)
    /\ now' = now + TickSecs
    /\ UNCHANGED <<storeVars, req, usedTxn, chk, outbox, results, committed, sel>>

\* the store a checkout may find: no order, or the order left by
\* create_order and one add_item of I1 at price 5
StoredOrder == [order_id |-> 1, paid |-> "False", items |-> JsonDumps(<<"I1">>),
                user_id |-> "U1", total_cost |-> IntToBytes(5)]

InitCheckout ==
    /\ \/ InitStore
       \/ /\ store = [o \in OrderIds |-> IF o = 1 THEN StoredOrder ELSE NoHash]
          /\ price = [i \in ItemIds |-> IF i = "I1" THEN <<5>> ELSE None]
          /\ usedIds = {1}
          /\ req = [r \in Req |-> IdleReq]
          /\ ins = [o \in OrderIds |-> IF o = 1 THEN <<5>> ELSE <<>>]
          /\ pairs = {<<1, <<>>, 0>>, <<1, <<"I1">>, 5>>}
    /\ InitSaga

SagaNext ==
    \/ \E r \in SagaReq, o \in OrderIds : checkout_watch(r, o)
    \/ \E r \in SagaReq : checkout_read(r)
    \/ \E r \in SagaReq : checkout_consumer(r)
    \/ \E r \in SagaReq : checkout_send_stock(r)
    \/ \E r \in SagaReq : checkout_send_payment(r)
    \/ \E r \in SagaReq : checkout_next(r)
    \/ \E r \in SagaReq : checkout_message(r)
    \/ \E r \in SagaReq : checkout_idle(r)
    \/ \E r \in SagaReq : auto_commit(r)
    \/ \E k \in TxnIds, st \in {"success", "failure"}, p \in Partitions : reply(k, st, p)
    \/ \E p \in Partitions : foreign_reply(p)
    \/ \E r \in SagaReq, o \in OrderIds : remove_order(r, o)
    \/ tick

SagaSpec == InitCheckout /\ [][SagaNext]_vars

-----------------------------------------------------------------------------
(* Specification of one checkout call that keeps running while the clock
   keeps going *)

\* time passes while a checkout waits for a message, the other steps of the
\* handler taking no time; a wait ends within the deadline, the idle
\* timeout and one tick
tick_waiting ==
    /\ \E r \in Req : Polling(r)
    /\ \A r \in Req : Polling(r) => ~Available(r) /\ ~Expired(r)
    /\ now < TimeoutSecs + ConsumerTimeoutSecs + TickSecs
    /\ now' = now + TickSecs
    /\ UNCHANGED <<storeVars, req, usedTxn, chk, outbox, results, committed, sel>>

LiveNext ==
    \/ \E o \in OrderIds : checkout_watch(1, o)
    \/ checkout_read(1)
    \/ checkout_consumer(1)
    \/ checkout_send_stock(1)
    \/ checkout_send_payment(1)
    \/ checkout_next(1)
    \/ checkout_message(1)
    \/ checkout_idle(1)
    \/ \E k \in TxnIds, st \in {"success", "failure"}, p \in Partitions : reply(k, st, p)
    \/ \E p \in Partitions : foreign_reply(p)
    \/ tick_waiting

\* the handler's thread is scheduled again and again and the clock goes on
LiveSpec ==
    /\ InitCheckout
    /\ [][LiveNext]_vars
    /\ WF_vars(checkout_read(1))
    /\ WF_vars(checkout_consumer(1))
    /\ WF_vars(checkout_send_stock(1))
    /\ WF_vars(checkout_send_payment(1))
    /\ WF_vars(checkout_next(1))
    /\ WF_vars(checkout_message(1))
    /\ WF_vars(checkout_idle(1))
    /\ WF_vars(tick_waiting)

-----------------------------------------------------------------------------
(* Properties of the order store *)

Mutation(r) == req[r].op \in {"add_item", "remove_item"}
Done(r) == req[r].pc = "done"
\* the request's first EXEC found the order
ReadOrder(r) == req[r].order_data # NoHash
SnapshotItems(r) == JsonLoads(req[r].order_data["items"])
Absent(list, x) == \A k \in 1..Len(list) : list[k] # x

\* C1: a mutating request whose order record was modified by another
\* addItem/removeItem between its own read and its own commit does not commit
C1_StaleRequestDoesNotCommit ==
    \A r \in Req : Mutation(r) /\ req[r].wrote => ~req[r].stale

\* C2: the stored total_cost equals the sum of the prices the entries in
\* items had when they were inserted
C2_TotalIsSumOfInsertionPrices ==
    \A o \in OrderIds : store[o] # NoHash =>
        /\ Len(ins[o]) = Len(JsonLoads(store[o]["items"]))
        /\ BytesToInt(store[o]["total_cost"]) = SumSeq(ins[o])

\* C3: every (items, total_cost) held by the store, returned by find or
\* read by any handler is a pair that one EXEC wrote as a whole
C3_ItemsAndTotalWrittenTogether ==
    /\ \A o \in OrderIds : store[o] # NoHash =>
          <<o, JsonLoads(store[o]["items"]), BytesToInt(store[o]["total_cost"])>> \in pairs
    /\ \A r \in Req : req[r].order # NoHash =>
          <<req[r].order_id, req[r].order["items"],
            BytesToInt(req[r].order["total_cost"])>> \in pairs
    /\ \A r \in Req : ReadOrder(r) =>
          <<req[r].order_id, SnapshotItems(r),
            BytesToInt(req[r].order_data["total_cost"])>> \in pairs

\* find answered with a non-empty order while an addItem on the same order
\* is between its read and its commit
C3_Witness ==
    \E r, w \in Req :
        /\ req[r].op = "find_order" /\ req[r].code = 200
        /\ Len(req[r].order["items"]) > 0
        /\ req[w].op = "add_item" /\ req[w].pc = "commit"
        /\ req[w].order_id = req[r].order_id
        /\ SnapshotItems(w) # req[r].order["items"]

\* C4 as claimed: removeItem of an item that is not in the order it read
\* writes nothing and reports "Item not in order", whatever the item
C4_AbsentItemReportsNotInOrder ==
    \A r \in Req :
        (/\ req[r].op = "remove_item" /\ Done(r) /\ ReadOrder(r)
         /\ req[r].oracle # 0
         /\ Absent(SnapshotItems(r), req[r].item_id))
        => /\ ~req[r].wrote
           /\ req[r].code = 400 /\ req[r].body = "Item not in order"

\* C4 amended: removeItem of an item that is not in the order it read never
\* writes and never gets as far as the commit; it answers 400 "Item not in
\* order" when the stock service knows the item, 400 "Item not found" when
\* it does not, 500 when the stock service cannot be reached
C4_AbsentItemLeavesOrderUnchanged ==
    \A r \in Req :
        (/\ req[r].op = "remove_item" /\ ReadOrder(r)
         /\ Absent(SnapshotItems(r), req[r].item_id))
        => /\ ~req[r].wrote
           /\ req[r].pc \in {"price", "done"}
           /\ Done(r) =>
                /\ req[r].oracle = 200 => req[r].code = 400 /\ req[r].body = "Item not in order"
                /\ req[r].oracle = 404 => req[r].code = 400 /\ req[r].body = "Item not found"
                /\ req[r].oracle = 0 => req[r].code = 500

\* both answers of the amended C4 have been given
C4_Witness ==
    \E r, q \in Req :
        /\ req[r].op = "remove_item" /\ Done(r) /\ ReadOrder(r)
        /\ Absent(SnapshotItems(r), req[r].item_id)
        /\ req[r].item_id = "I9" /\ req[r].body = "Item not found"
        /\ Len(SnapshotItems(r)) > 0
        /\ req[q].op = "remove_item" /\ Done(q) /\ ReadOrder(q)
        /\ Absent(SnapshotItems(q), req[q].item_id)
        /\ req[q].item_id = "I1" /\ req[q].body = "Item not in order"

\* C5: an addItem that does not answer success has written nothing; an item
\* the stock service does not know gives 400 "Item not found", an order id
\* without a record gives 400 and no record is created
C5_FailedAddItemWritesNothing ==
    \A r \in Req : req[r].op = "add_item" /\ Done(r) =>
        /\ req[r].code # 200 => ~req[r].wrote
        /\ req[r].oracle = 404 =>
              req[r].code = 400 /\ req[r].body = "Item not found" /\ ~req[r].wrote
        /\ (~ReadOrder(r) /\ req[r].body # "Watched variable changed.") =>
              /\ req[r].code = 400 /\ req[r].body = "The order_key does not exist"
              /\ ~req[r].wrote

\* both failures have happened: an unknown item on an order that holds an
\* item, and an addItem on an id that has no record
C5_Witness ==
    \E r, q \in Req :
        /\ req[r].op = "add_item" /\ Done(r) /\ req[r].oracle = 404
        /\ ReadOrder(r) /\ Len(SnapshotItems(r)) > 0
        /\ store[req[r].order_id] = req[r].order_data
        /\ req[q].op = "add_item" /\ Done(q) /\ ~ReadOrder(q)
        /\ req[q].code = 400 /\ req[q].body = "The order_key does not exist"
        /\ ~req[q].wrote

-----------------------------------------------------------------------------
(* Properties of checkout *)

Checkout(r) == req[r].op = "checkout"
\* the checkout answered from a reply it consumed
Resolved(r) == Checkout(r) /\ Done(r) /\ chk[r].got >= 0
Consumed(r) == results[chk[r].partition][chk[r].got + 1]
Matches(message, r) == KeyDeserializer(message.key) = chk[r].txn
Published(r) == {k \in 1..Len(outbox) : outbox[k].key = KeySerializer(chk[r].txn)}

\* C6: no checkout call has returned with the consumer it created still
\* open
C6_ConsumerReleasedOnReturn ==
    \A r \in Req : Checkout(r) /\ Done(r) => chk[r].consumer # "open"

\* C7: a checkout that answers Succeeded or Failed answers from the first
\* message on its assigned partition whose key is its transaction id,
\* "success" giving 200 and any other status 400 "Payment failed"
C7_ResolvesFromFirstMatchingMessage ==
    \A r \in Req :
        /\ Resolved(r) =>
              /\ Matches(Consumed(r), r)
              /\ \A k \in 1..chk[r].got : ~Matches(results[chk[r].partition][k], r)
              /\ IF Consumed(r).value.status = "success"
                 THEN req[r].code = 200 /\ req[r].body = "success"
                 ELSE req[r].code = 400 /\ req[r].body = "Payment failed"
        /\ (Checkout(r) /\ req[r].code = 200) =>
              Resolved(r) /\ Consumed(r).value.status = "success"

\* C8: a checkout answers Succeeded or Failed only from a matching reply
\* published before its deadline, and answers 400 "Wait too long, quit"
\* when it ends its wait without a matching reply
C8_LateReplyIsNotActedOn ==
    \A r \in Req :
        /\ Resolved(r) => ~Consumed(r).late
        /\ (Checkout(r) /\ Done(r) /\ chk[r].deadline > 0 /\ chk[r].got < 0) =>
              req[r].code = 400 /\ req[r].body = "Wait too long, quit"

\* C9: every step that publishes an intent keyed with a checkout's
\* transaction id starts in a state where that checkout's consumer is open
\* and assigned to a partition of the results topic
C9_SubscribedBeforePublishing ==
    [][\A r \in Req :
          (Checkout(r) /\ Len(outbox') > Len(outbox)
             /\ outbox'[Len(outbox')].key = KeySerializer(chk[r].txn))
          => /\ chk[r].consumer = "open"
             /\ chk[r].partition \in Partitions]_vars

\* a checkout has published both intents and waits on its partition
C9_Witness ==
    \E r \in Req :
        /\ Checkout(r) /\ Polling(r)
        /\ Cardinality(Published(r)) = 2
        /\ \E k \in Published(r) : outbox[k].topic = "stock_check_topic"
        /\ \E k \in Published(r) : outbox[k].topic = "payment_processing_topic"
        /\ chk[r].consumer = "open" /\ chk[r].partition \in Partitions

\* C10: the partition a checkout listens on is the partition the producer's
\* default partitioner gives a message keyed with the checkout's
\* transaction id
C10_ListensWhereProducerPublishes ==
    \A r \in Req : (Checkout(r) /\ chk[r].partition >= 0) =>
        chk[r].partition = DefaultPartitioner(KeySerializer(chk[r].txn), NumPartitions)

-----------------------------------------------------------------------------
(* Properties of delete, create and the record *)

\* request r has just been answered by this step
Answered(r) == req[r].pc # "done" /\ req'[r].pc = "done"
\* a delete of order o has answered success
Deleted(o) == \E d \in Req :
    req[d].op = "remove_order" /\ req[d].order_id = o /\ req[d].code = 200
NotFoundBodies == {"Order not found", "The order_key does not exist"}

\* C11 as claimed: a delete of an id without a record answers 400 "Order not
\* found" and changes nothing, a delete of an existing record removes it and
\* answers success, and every find, addItem, removeItem or checkout that
\* starts on the id after a successful delete answers 400 not found
C11_DeletedOrderStaysNotFound ==
    [][\A r \in Req :
        /\ (Answered(r) /\ req'[r].op = "remove_order") =>
              IF store[req'[r].order_id] = NoHash
              THEN /\ req'[r].code = 400 /\ req'[r].body = "Order not found"
                   /\ store' = store
              ELSE /\ req'[r].code = 200 /\ req'[r].body = "success"
                   /\ store'[req'[r].order_id] = NoHash
        /\ (/\ req[r].op \in {"find_order", "add_item", "remove_item", "checkout"}
            /\ req[r].pc = "read" /\ req'[r].pc # "read"
            /\ ~req[r].dirty
            /\ Deleted(req[r].order_id))
           => /\ req'[r].pc = "done" /\ req'[r].code = 400
              /\ req'[r].body \in NotFoundBodies]_vars

StoredItems(o) == JsonLoads(store[o]["items"])
StoredTotal(o) == BytesToInt(store[o]["total_cost"])

\* C12: create writes a record with empty items, total_cost 0 and paid
\* False under an id never used before; with calls served one at a time, a
\* successful addItem appends its item id to items and adds the price the
\* stock service gave to total_cost, and a successful removeItem takes out
\* exactly the first occurrence of its item id and keeps the rest in order
C12_CreateAppendRemoveFirst ==
    [][\A r \in Req, o \in OrderIds :
        LET i == req[r].item_id
            items == JsonLoads(store'[o]["items"])
            total_cost == BytesToInt(store'[o]["total_cost"])
        IN /\ (Answered(r) /\ req'[r].op = "create_order" /\ req'[r].order_id = o) =>
                /\ o \notin usedIds /\ store[o] = NoHash
                /\ DOMAIN store'[o] = {"order_id", "paid", "items", "user_id", "total_cost"}
                /\ store'[o]["order_id"] = o /\ store'[o]["paid"] = "False"
                /\ items = <<>> /\ total_cost = 0
           /\ (req[r].pc = "price" /\ req'[r].pc = "commit") =>
                price[i] = <<req'[r].item_price>>
           /\ (/\ Answered(r) /\ req[r].op = "add_item" /\ req'[r].code = 200
               /\ req[r].order_id = o) =>
                /\ items = Append(StoredItems(o), i)
                /\ total_cost = StoredTotal(o) + req[r].item_price
           /\ (/\ Answered(r) /\ req[r].op = "remove_item" /\ req'[r].code = 200
               /\ req[r].order_id = o) =>
                /\ \E k \in 1..Len(StoredItems(o)) :
                      /\ StoredItems(o)[k] = i
                      /\ \A j \in 1..(k - 1) : StoredItems(o)[j] # i
                      /\ items = SubSeq(StoredItems(o), 1, k - 1)
                              \o SubSeq(StoredItems(o), k + 1, Len(StoredItems(o)))
                /\ total_cost = StoredTotal(o) - req[r].item_price]_vars

\* I1, I9, I1 were added in this order and a removeItem of I1 has left
\* I9, I1
C12_Witness ==
    \E o \in OrderIds, r \in Req, t \in 0..15 :
        /\ <<o, <<"I1", "I9", "I1">>, t>> \in pairs
        /\ req[r].op = "remove_item" /\ req[r].code = 200 /\ req[r].item_id = "I1"
        /\ store[o] # NoHash /\ StoredItems(o) = <<"I9", "I1">>

-----------------------------------------------------------------------------
(* Properties of what checkout publishes and writes *)

PublishedOn(r, topic) == {k \in Published(r) : outbox[k].topic = topic}
\* the checkout is past both sends
PastSends(r) == Checkout(r) /\ (req[r].pc \in {"iterate", "poll"}
                                \/ (Done(r) /\ chk[r].deadline > 0))

CheckoutStep ==
    \/ \E r \in Req : req'[r].op = "checkout" /\ req'[r].pc # req[r].pc
    \/ chk' # chk
    \/ outbox' # outbox
    \/ committed' # committed

C15_MissingOrderEndsCheckoutAtOnce ==
    [][\A r \in Req :
        /\ (/\ Checkout(r) /\ req[r].pc = "read" /\ req'[r].pc # "read"
            /\ ~req[r].dirty /\ store[req[r].order_id] = NoHash)
           => /\ req'[r].pc = "done" /\ req'[r].code = 400
              /\ req'[r].body = "Order not found"
        /\ (req'[r].op = "checkout" /\ req'[r].order_data = NoHash)
           => /\ chk'[r].consumer = "none" /\ chk'[r].partition = -1
              /\ \A k \in 1..Len(outbox') :
                    outbox'[k].key # KeySerializer(chk'[r].txn)]_vars

\* the order has been deleted and a checkout of its id has answered "Order
\* not found", with no consumer and nothing published
C15_Witness ==
    \E r, d \in Req :
        /\ req[d].op = "remove_order" /\ req[d].code = 200
        /\ Checkout(r) /\ Done(r) /\ req[r].order_id = req[d].order_id
        /\ req[r].code = 400 /\ req[r].body = "Order not found"
        /\ chk[r].consumer = "none" /\ outbox = <<>>

-----------------------------------------------------------------------------
(* Properties of concurrent checkouts *)

\* C16: two checkout calls never have the same transaction id, and a
\* checkout that answers Succeeded or Failed answers from a message keyed
\* with its own transaction id, never from a message of another checkout
C16_ResolvedOnlyByOwnReply ==
    \A r, q \in Req : (r # q /\ Checkout(r) /\ Checkout(q)) =>
        /\ chk[r].txn # chk[q].txn
        /\ Resolved(r) =>
              /\ KeyDeserializer(Consumed(r).key) = chk[r].txn
              /\ KeyDeserializer(Consumed(r).key) # chk[q].txn
        /\ (req[r].code = 200 \/ req[r].body = "Payment failed") => Resolved(r)

\* two checkouts listen on the same partition; the reply to one of them
\* came first and the other read past it and then answered from its own
C16_Witness ==
    \E r, q \in Req :
        /\ r # q /\ Checkout(q) /\ Resolved(r)
        /\ chk[r].partition = chk[q].partition
        /\ chk[r].got = 1
        /\ Matches(results[chk[r].partition][1], q)

\* C17: when a checkout starts iterating, its consumer starts at or before
\* every reply keyed with its transaction id that is already on its
\* partition, so that no such reply is skipped
C17_QueuedReplyIsNotSkipped ==
    [][\A r \in Req :
        (/\ Checkout(r) /\ req[r].pc = "iterate" /\ req'[r].pc = "poll"
         /\ chk[r].position < 0)
        => \A k \in 1..Len(results[chk[r].partition]) :
              Matches(results[chk[r].partition][k], r) => chk'[r].position < k]_vars

-----------------------------------------------------------------------------
(* Properties of the partition selection *)

\* murmur2 of the reference keys, sign bit cleared
ReferenceHash(key) ==
    IF key = <<50, 49>> THEN 1173551340
    ELSE IF key = <<97, 98, 99>> THEN 479470107
    ELSE 1357151166

\* C18: the selected index is the 32-bit hash of the key bytes with the
\* sign bit cleared, modulo n: it lies in 0..n-1 for every key and every
\* n >= 1, it is the same when computed again, and for keys with a known
\* murmur2 value it is that value modulo n
C18_SelectorIsDeterministicAndInRange ==
    sel.index # -1 =>
        /\ sel.index \in 0..(sel.n - 1)
        /\ sel.index = ClearSign(murmur2(sel.key)) % sel.n
        /\ sel.key \in ReferenceKeys => sel.index = ReferenceHash(sel.key) % sel.n
        /\ sel.again # -1 => sel.again = sel.index

\* the index of the key "21", whose hash has the sign bit set, was computed
\* twice for three partitions
C18_Witness ==
    /\ sel.key = <<50, 49>> /\ sel.n = 3
    /\ sel.index # -1 /\ sel.again # -1

-----------------------------------------------------------------------------
(* Termination of checkout *)

Outcomes == {<<200, "success">>, <<400, "Payment failed">>,
             <<400, "Wait too long, quit">>, <<400, "Order not found">>,
             <<500, "TypeError">>, <<500, "Watched variable changed.">>}

\* C19: every checkout call that has started returns, with exactly one of
\* the outcomes; a message with another key read after the deadline ends
\* the wait at once, and a silent partition ends it by the idle timeout
C19_CheckoutTerminates ==
    /\ \A r \in Req : Checkout(r) ~> (Checkout(r) /\ Done(r))
    /\ [](\A r \in Req : (Checkout(r) /\ Done(r)) =>
             <<req[r].code, req[r].body>> \in Outcomes)
    /\ [][\A r \in Req :
            (/\ Polling(r) /\ req'[r].pc # "poll" /\ now > chk[r].deadline
             /\ Available(r) /\ ~Expired(r)
             /\ ~Matches(results[chk[r].partition][chk[r].position + 1], r))
            => /\ req'[r].pc = "done"
               /\ req'[r].body = "Wait too long, quit"]_vars

\* a checkout has ended "Wait too long, quit" after two messages with
\* other keys had arrived on its partition during its wait
C19_Witness ==
    \E r \in Req :
        /\ Checkout(r) /\ Done(r) /\ req[r].body = "Wait too long, quit"
        /\ now > chk[r].deadline
        /\ Len(results[chk[r].partition]) >= 2
        /\ \A k \in 1..Len(results[chk[r].partition]) :
              ~Matches(results[chk[r].partition][k], r)

-----------------------------------------------------------------------------
(* Well-formedness of the records *)

OrderFields == {"order_id", "user_id", "paid", "items", "total_cost"}

\* C20: every record in the store has the five fields of an order, and
\* belongs to an order that was created and has not been deleted
C20_RecordsAreWholeAndLive ==
    \A o \in OrderIds : store[o] # NoHash =>
        /\ DOMAIN store[o] = OrderFields
        /\ o \in usedIds
        /\ ~Deleted(o)

====
